---- MODULE Spec2Model ----
(***************************************************************************)
(* Party balance / party ledger computation of the day-book application    *)
(* (src/app.py).  The Daybook and the "Opening Balances" sheet are the     *)
(* store; get_opening_balance, calculate_party_balance and the "Load       *)
(* Ledger" handler of render_party_ledger are modelled statement by        *)
(* statement.                                                              *)
(*                                                                         *)
(* Encodings.  A date text "MM-DD-YYYY" is the tuple <<MM, DD, YYYY>>; the *)
(* empty text is <<>>.  A Python date is its ordinal (see date_ordinal);   *)
(* an optional date (None) is a record with ok = FALSE.  Money is a whole  *)
(* number of currency units, so float rounding is outside the model; an    *)
(* empty cell reads as 0 exactly as float(x or 0) does.                    *)
(***************************************************************************)
EXTENDS Integers, Sequences, FiniteSets, TLC

VARIABLES
    daybook,          \* data rows of the "Daybook" sheet, in storage order
    openingBalances,  \* data rows of the "Opening Balances" sheet
    view,             \* what the last handler run produced
    call,             \* the append_row / append_rows_batch call in progress
    obValues,         \* raw cells of "Opening Balances", header row first
    sessions,         \* per browser session: where its script run stands
    master,           \* data rows of the "Parties" and "Items" sheets
    cache             \* st.cache_data of read_all_rows, get_parties, get_items

vars ==
    <<daybook, openingBalances, view, call, obValues, sessions, master, cache>>

(***************************************************************************)
(* Bounds and input domains.                                               *)
(***************************************************************************)
MaxRows == 2
MaxOpening == 1
MaxRetries == 2

Parties == {"Radha", "Raj"}

VoucherTypes == {"Purchase", "Sale", "Payment", "Receipt"}

PARTIES_SHEET == "Parties"
ITEMS_SHEET == "Items"
DAYBOOK_SHEET == "Daybook"
OPENING_BAL_SHEET == "Opening Balances"

SheetNames == {PARTIES_SHEET, ITEMS_SHEET, DAYBOOK_SHEET, OPENING_BAL_SHEET}

\* The category argument of get_parties / get_items; "" asks for all.
CategoryArgs == {"", "Purchase", "Sale", "Payment", "Bank"}

NoMaster == [Parties |-> <<>>, Items |-> <<>>]

Miss == [hit |-> FALSE]

EmptyCache ==
    [read_all_rows |-> [n \in SheetNames |-> Miss],
     get_parties |-> [c \in CategoryArgs |-> Miss],
     get_items |-> [c \in CategoryArgs |-> Miss]]

(***************************************************************************)
(* datetime.strptime(text, "%m-%d-%Y").date()                              *)
(***************************************************************************)
IsLeap(y) == (y % 4 = 0 /\ y % 100 # 0) \/ y % 400 = 0

DaysInMonth(m, y) ==
    IF m = 2 THEN (IF IsLeap(y) THEN 29 ELSE 28)
    ELSE IF m \in {4, 6, 9, 11} THEN 30 ELSE 31

\* Order-preserving stand-in for a datetime.date value.
date_ordinal(m, d, y) == (y * 12 + (m - 1)) * 31 + d

None == [ok |-> FALSE, ord |-> 0]

\* Faulty variant: the day is not checked against the month.
strptime_any_day(text) ==
    IF /\ Len(text) = 3
       /\ text[1] \in 1..12
       /\ text[3] \in 1..9999
       /\ text[2] \in 1..31
    THEN [ok |-> TRUE, ord |-> date_ordinal(text[1], text[2], text[3])]
    ELSE None

strptime(text) ==
    IF /\ Len(text) = 3
       /\ text[1] \in 1..12
       /\ text[3] \in 1..9999
       /\ text[2] \in 1..DaysInMonth(text[1], text[3])
    THEN [ok |-> TRUE, ord |-> date_ordinal(text[1], text[2], text[3])]
    ELSE None

\* date.strftime("%m-%d-%Y") of the ordinal of a valid date
strftime(ord) ==
    LET d == ((ord - 1) % 31) + 1
        q == (ord - d) \div 31
    IN  <<(q % 12) + 1, d, q \div 12>>

(***************************************************************************)
(* get_opening_balance(party_name, start_date) over the rows read from the *)
(* "Opening Balances" sheet: the first row of the party decides.           *)
(***************************************************************************)
\* Faulty variants of the test below: the date of the row is ignored (as
\* before the sheet had a Date column); a row dated exactly the requested
\* date counts as not yet effective.
ob_not_yet_effective_ignoring_date(ob_date, start_date) == FALSE

ob_not_yet_effective_on_or_after(ob_date, start_date) ==
    ob_date.ok /\ ob_date.ord >= start_date

\* line 228: "if ob_date and ob_date > start_date"
ob_not_yet_effective(ob_date, start_date) ==
    ob_date.ok /\ ob_date.ord > start_date

RECURSIVE get_opening_balance_from(_, _, _, _)
get_opening_balance_from(rows, i, party_name, start_date) ==
    IF i > Len(rows) THEN [balance |-> 0, found |-> FALSE]
    ELSE IF rows[i].party = party_name THEN
        LET ob_date == strptime(rows[i].date) IN
        IF ob_not_yet_effective(ob_date, start_date)
        THEN [balance |-> 0, found |-> FALSE]
        ELSE [balance |-> rows[i].debit - rows[i].credit, found |-> TRUE]
    ELSE get_opening_balance_from(rows, i + 1, party_name, start_date)

get_opening_balance(ob_rows, party_name, start_date) ==
    get_opening_balance_from(ob_rows, 1, party_name, start_date)

(***************************************************************************)
(* The "get OB date" loop shared by calculate_party_balance and            *)
(* render_party_ledger: the date of the first row of the party, None when  *)
(* has_ob is false, no row matches or the text does not parse.             *)
(***************************************************************************)
RECURSIVE ob_date_from(_, _, _)
ob_date_from(ob_rows, i, party) ==
    IF i > Len(ob_rows) THEN None
    ELSE IF ob_rows[i].party = party THEN strptime(ob_rows[i].date)
    ELSE ob_date_from(ob_rows, i + 1, party)

ob_date_of(ob_rows, party, has_ob) ==
    IF has_ob THEN ob_date_from(ob_rows, 1, party) ELSE None

(***************************************************************************)
(* Sign convention: Sale + Payment are debit, Purchase + Receipt credit.   *)
(***************************************************************************)
debit_of(vtype, amt) == IF vtype \in {"Sale", "Payment"} THEN amt ELSE 0

credit_of(vtype, amt) == IF vtype \in {"Purchase", "Receipt"} THEN amt ELSE 0

(***************************************************************************)
(* calculate_party_balance(party, upto_date)                               *)
(***************************************************************************)
\* Faulty variant: rows dated on the opening-balance date are skipped too.
balance_skips_on_or_before_ob(ob_date, d) ==
    ob_date.ok /\ d.ord <= ob_date.ord

\* line 292: "if ob_date and d < ob_date: continue"
balance_skips_before_ob(ob_date, d) == ob_date.ok /\ d.ord < ob_date.ord

\* Faulty variant: the convention of the earlier revisions (Purchase and
\* Payment debit, Sale and Receipt credit).
balance_step_earlier_convention(balance, vtype, amt) ==
    IF vtype \in {"Purchase", "Payment"} THEN balance + amt
    ELSE IF vtype \in {"Sale", "Receipt"} THEN balance - amt
    ELSE balance

\* lines 302-305: the sign convention applied to the running balance
balance_step(balance, vtype, amt) ==
    IF vtype \in {"Sale", "Payment"} THEN balance + amt
    ELSE IF vtype \in {"Purchase", "Receipt"} THEN balance - amt
    ELSE balance

RECURSIVE balance_loop(_, _, _, _, _, _)
balance_loop(rows, i, party, ob_date, upto_date, balance) ==
    IF i > Len(rows) THEN balance
    ELSE
        LET r == rows[i]
            d == strptime(r.date)
        IN  IF r.party # party THEN
                balance_loop(rows, i + 1, party, ob_date, upto_date, balance)
            ELSE IF ~d.ok THEN
                balance_loop(rows, i + 1, party, ob_date, upto_date, balance)
            ELSE IF balance_skips_before_ob(ob_date, d) THEN
                balance_loop(rows, i + 1, party, ob_date, upto_date, balance)
            ELSE IF d.ord > upto_date THEN
                balance_loop(rows, i + 1, party, ob_date, upto_date, balance)
            ELSE
                balance_loop(rows, i + 1, party, ob_date, upto_date,
                             balance_step(balance, r.vtype, r.amount))

calculate_party_balance(rows, ob_rows, party, upto_date) ==
    LET ob == get_opening_balance(ob_rows, party, upto_date)
        ob_date == ob_date_of(ob_rows, party, ob.found)
    IN  balance_loop(rows, 1, party, ob_date, upto_date, ob.balance)

(***************************************************************************)
(* render_party_ledger, "Load Ledger" pressed: the scan of the Daybook.    *)
(* The state of the loop is the opening balance accumulated so far and the *)
(* list of records; records are appended in the order the rows are read.   *)
(***************************************************************************)
ledger_record(r) ==
    [Date |-> r.date, Slip |-> r.slip, Type |-> r.vtype, Item |-> r.item,
     Qty |-> r.qty, Rate |-> r.rate,
     Debit |-> debit_of(r.vtype, r.amount),
     Credit |-> credit_of(r.vtype, r.amount)]

\* line 452: "if ob_date and d < ob_date: continue"
ledger_skips_before_ob(ob_date, d) == ob_date.ok /\ d.ord < ob_date.ord

\* Faulty variant: a row dated on the first day of the range is folded into
\* the opening balance as well.
before_start_inclusive(d, start_date) == d.ord <= start_date

\* line 461: "if d < start_date" (the row is folded into the opening balance)
before_start(d, start_date) == d.ord < start_date

\* Faulty variant: the newest record is put first.
records_prepend(records, rec) == <<rec>> \o records

\* line 473: records.append(...)
records_append(records, rec) == Append(records, rec)

RECURSIVE ledger_loop(_, _, _, _, _, _, _, _)
ledger_loop(rows, i, party, ob_date, start_date, end_date, opening_balance, records) ==
    IF i > Len(rows)
    THEN [opening_balance |-> opening_balance, records |-> records]
    ELSE
        LET r == rows[i]
            d == strptime(r.date)
            debit == debit_of(r.vtype, r.amount)
            credit == credit_of(r.vtype, r.amount)
        IN  IF r.party # party THEN
                ledger_loop(rows, i + 1, party, ob_date, start_date, end_date,
                            opening_balance, records)
            ELSE IF ~d.ok THEN
                ledger_loop(rows, i + 1, party, ob_date, start_date, end_date,
                            opening_balance, records)
            ELSE IF ledger_skips_before_ob(ob_date, d) THEN
                ledger_loop(rows, i + 1, party, ob_date, start_date, end_date,
                            opening_balance, records)
            ELSE IF before_start(d, start_date) THEN
                ledger_loop(rows, i + 1, party, ob_date, start_date, end_date,
                            opening_balance + debit - credit, records)
            ELSE IF d.ord > end_date THEN
                ledger_loop(rows, i + 1, party, ob_date, start_date, end_date,
                            opening_balance, records)
            ELSE
                ledger_loop(rows, i + 1, party, ob_date, start_date, end_date,
                            opening_balance,
                            records_append(records, ledger_record(r)))

ledger_scan(rows, ob_rows, party, start_date, end_date) ==
    LET ob == get_opening_balance(ob_rows, party, start_date)
        ob_date == ob_date_of(ob_rows, party, ob.found)
    IN  ledger_loop(rows, 1, party, ob_date, start_date, end_date,
                    ob.balance, <<>>)

(***************************************************************************)
(* The opening row and the running balance column.                         *)
(***************************************************************************)
Abs(x) == IF x < 0 THEN -x ELSE x

opening_row(opening_balance) ==
    [Date |-> <<>>, Slip |-> "", Type |-> "Opening Balance", Item |-> "",
     Qty |-> 0, Rate |-> 0,
     Debit |-> IF opening_balance > 0 THEN opening_balance ELSE 0,
     Credit |-> IF opening_balance < 0 THEN Abs(opening_balance) ELSE 0]

\* Faulty variant: the credit column is not subtracted.
running_step_debit_only(running, debit, credit) == running + debit

\* line 494: running += float(row["Debit"]) - float(row["Credit"])
running_step(running, debit, credit) == running + debit - credit

RECURSIVE running_balances(_, _, _, _)
running_balances(rows, i, running, balances) ==
    IF i > Len(rows) THEN balances
    ELSE LET next == running_step(running, rows[i].Debit, rows[i].Credit)
         IN  running_balances(rows, i + 1, next, Append(balances, next))

with_balance(row, balance) ==
    [Date |-> row.Date, Slip |-> row.Slip, Type |-> row.Type,
     Item |-> row.Item, Qty |-> row.Qty, Rate |-> row.Rate,
     Debit |-> row.Debit, Credit |-> row.Credit, Balance |-> balance]

build_ledger_df(opening_balance, records) ==
    LET rows == <<opening_row(opening_balance)>> \o records
        balances == running_balances(rows, 1, 0, <<>>)
    IN  [i \in 1..Len(rows) |-> with_balance(rows[i], balances[i])]

\* Faulty variant: the totals leave the opening row out.
RECURSIVE column_sum_without_opening(_, _, _)
column_sum_without_opening(df, i, col) ==
    IF i > Len(df) THEN 0
    ELSE (IF df[i].Type = "Opening Balance" THEN 0
          ELSE IF col = "Debit" THEN df[i].Debit ELSE df[i].Credit)
         + column_sum_without_opening(df, i + 1, col)

RECURSIVE column_sum(_, _, _)
column_sum(df, i, col) ==
    IF i > Len(df) THEN 0
    ELSE (IF col = "Debit" THEN df[i].Debit ELSE df[i].Credit)
         + column_sum(df, i + 1, col)

(***************************************************************************)
(* What one press of "Load Ledger" renders: either the info message or the *)
(* data frame with the three metrics (total debit, total credit, net       *)
(* balance).                                                               *)
(***************************************************************************)
\* Faulty variant: only the records decide.
has_ledger_data_records_only(opening_balance, records) == records # <<>>

\* line 480: "if opening_balance != 0 or records"
has_ledger_data(opening_balance, records) ==
    opening_balance # 0 \/ records # <<>>

load_ledger(rows, ob_rows, party, start_date, end_date) ==
    LET scan == ledger_scan(rows, ob_rows, party, start_date, end_date) IN
    IF has_ledger_data(scan.opening_balance, scan.records) THEN
        LET df == build_ledger_df(scan.opening_balance, scan.records) IN
        [kind |-> "ledger", party |-> party,
         start_date |-> start_date, end_date |-> end_date,
         df |-> df,
         total_debit |-> column_sum(df, 1, "Debit"),
         total_credit |-> column_sum(df, 1, "Credit"),
         net_balance |-> df[Len(df)].Balance]
    ELSE
        [kind |-> "no_entries", party |-> party,
         start_date |-> start_date, end_date |-> end_date]

(***************************************************************************)
(* Store contents.  A Purchase/Sale row is written by the entry form with  *)
(* an item, a quantity and a rate; a Payment/Receipt row carries the mode  *)
(* in the item column and zero quantity and rate.                          *)
(***************************************************************************)
Voucher(date, vtype, party, amount) ==
    IF vtype \in {"Purchase", "Sale"}
    THEN [date |-> date, slip |-> "S1", vtype |-> vtype, party |-> party,
          item |-> "Resin", qty |-> 1, rate |-> amount, amount |-> amount]
    ELSE [date |-> date, slip |-> "R1", vtype |-> vtype, party |-> party,
          item |-> "Cash", qty |-> 0, rate |-> 0, amount |-> amount]

OpeningRow(party, date, debit, credit) ==
    [party |-> party, date |-> date, debit |-> debit, credit |-> credit]

SeqsUpTo(S, n) == UNION {[1..k -> S] : k \in 0..n}

(***************************************************************************)
(* Rows the sheets are drawn from.  Radha is the party under study: the    *)
(* Daybook may hold a voucher of every type on every date for it, the      *)
(* amount telling the date, so that a row counted or skipped by mistake    *)
(* shows in a sum.  Raj supplies the rows of another party.  D1, D2, D3    *)
(* are in calendar order, which is not the order of their texts.           *)
(***************************************************************************)
D1 == <<12, 31, 2023>>

D2 == <<4, 1, 2024>>

D3 == <<5, 1, 2024>>

ValidDateTexts == {D1, D2, D3}

\* A text strptime rejects (month 13).
BadDateText == <<13, 1, 2024>>

AmountOn(dt) == IF dt = D1 THEN 100 ELSE IF dt = D2 THEN 300 ELSE 900

VoucherRows ==
    {Voucher(dt, vt, "Radha", AmountOn(dt)) :
        dt \in ValidDateTexts, vt \in VoucherTypes}
    \cup {Voucher(D2, "Sale", "Raj", 300), Voucher(D1, "Purchase", "Raj", 100)}

OpeningRows ==
    {OpeningRow("Radha", dt, 500, 0) : dt \in {D2, D3, BadDateText}}
    \cup {OpeningRow("Radha", D2, 0, 1000), OpeningRow("Raj", D2, 500, 0)}

\* The statement is studied on a debit and a credit voucher of every date,
\* and on all four types on D2.
LedgerVoucherRows ==
    {Voucher(dt, vt, "Radha", AmountOn(dt)) :
        dt \in ValidDateTexts, vt \in {"Sale", "Purchase"}}
    \cup {Voucher(D2, vt, "Radha", 300) : vt \in {"Payment", "Receipt"}}
    \cup {Voucher(D2, "Sale", "Raj", 300)}

(***************************************************************************)
(* The end-to-end scenario of the specification: Radha's opening balance   *)
(* and two vouchers, stored in the order given, among rows of Raj.         *)
(***************************************************************************)
S1 == <<4, 1, 2024>>

S2 == <<4, 10, 2024>>

S3 == <<5, 1, 2024>>

S4 == <<5, 31, 2024>>

ScenarioOpening == OpeningRow("Radha", S1, 0, 1000)

ScenarioVouchers ==
    <<Voucher(S2, "Sale", "Radha", 500), Voucher(S3, "Payment", "Radha", 200)>>

ScenarioOtherVouchers ==
    {Voucher(S2, "Sale", "Raj", 500), Voucher(S1, "Receipt", "Raj", 200)}

ScenarioOtherOpening == OpeningRow("Raj", S1, 1000, 0)

ScenarioDates == {strptime(dt).ord : dt \in {S1, S2, S3, S4}}

IsRadha(r) == r.party = "Radha"

\* The values a date_input widget can deliver.
QueryDates == {strptime(dt).ord : dt \in ValidDateTexts}

(***************************************************************************)
(* append_row and append_rows_batch (src/app.py:35-69).  One pass of the   *)
(* for loop is one attempt against the store; its outcome is the store's:  *)
(* the write is applied ("ok"), gspread raises APIError with RATE_LIMIT in *)
(* its text ("rate_limit"), another APIError ("api_error"), or any other   *)
(* exception ("exception").  call.outcomes logs the outcomes in order and  *)
(* call.errors counts the st.error messages.                               *)
(***************************************************************************)
NoCall == [status |-> "idle"]

Outcomes == {"ok", "rate_limit", "api_error", "exception"}

new_call(fn, worksheet_name, data, retries) ==
    [fn |-> fn, worksheet_name |-> worksheet_name, data |-> data,
     retries |-> retries, attempt |-> 0, status |-> "running",
     outcomes |-> <<>>, errors |-> 0]

\* Faulty variant: any APIError is retried.
should_retry_any_api_error(attempt, retries, outcome) ==
    attempt < retries /\ outcome \in {"rate_limit", "api_error"}

should_retry(attempt, retries, outcome) ==
    attempt < retries /\ outcome = "rate_limit"

append_attempt(c, outcome) ==
    LET c1 == [c EXCEPT !.outcomes = Append(@, outcome)] IN
    IF outcome = "ok"
    THEN [c1 EXCEPT !.status = "True"]
    ELSE IF outcome \in {"rate_limit", "api_error"}
    THEN IF should_retry(c.attempt, c.retries, outcome)
         THEN [c1 EXCEPT !.attempt = @ + 1]
         ELSE [c1 EXCEPT !.errors = @ + 1, !.status = "False"]
    ELSE [c1 EXCEPT !.errors = @ + 1, !.status = "False"]

(***************************************************************************)
(* _migrate_opening_balances_sheet (src/app.py:172-191) on the raw cells   *)
(* of the sheet.  A raw row is a tuple of cells; the legacy sheet has the  *)
(* header Party Name / Debit / Credit.  year is date.today().year.  fault  *)
(* names the store call that raises ("none": no call raises); the except   *)
(* clause swallows the exception, so the function always returns.  The     *)
(* result gives the cells left in the sheet, whether an exception was      *)
(* raised, and whether read_all_rows.clear() ran.                          *)
(***************************************************************************)
LegacyHeader == <<"Party Name", "Debit", "Credit">>

DatedHeader == <<"Party Name", "Date", "Debit", "Credit">>

Contains(seq, x) == \E i \in 1..Len(seq) : seq[i] = x

migrated_row(row, default_date) ==
    LET dr == IF Len(row) > 1 THEN row[2] ELSE 0
        cr == IF Len(row) > 2 THEN row[3] ELSE 0
    IN  <<row[1], default_date, dr, cr>>

RECURSIVE new_rows_from(_, _, _, _)
new_rows_from(all_vals, i, default_date, new_rows) ==
    IF i > Len(all_vals) THEN new_rows
    ELSE LET row == all_vals[i] IN
         IF row # <<>> /\ row[1] # ""
         THEN new_rows_from(all_vals, i + 1, default_date,
                            Append(new_rows, migrated_row(row, default_date)))
         ELSE new_rows_from(all_vals, i + 1, default_date, new_rows)

migrate_opening_balances_sheet(values, year, fault) ==
    LET unchanged(raised) ==
            [values |-> values, raised |-> raised, cleared |-> FALSE]
        header == IF values = <<>> THEN <<>> ELSE values[1]
    IN
    IF fault \in {"worksheet", "row_values"} THEN unchanged(TRUE)
    ELSE IF ~(header # <<>> /\ ~Contains(header, "Date"))
    THEN unchanged(FALSE)
    ELSE IF fault = "get_all_values" THEN unchanged(TRUE)
    ELSE LET default_date == strftime(date_ordinal(4, 1, year))
             new_rows == new_rows_from(values, 2, default_date,
                                       <<DatedHeader>>)
         IN  IF fault = "clear" THEN unchanged(TRUE)
             ELSE IF fault = "update"
             THEN [values |-> <<>>, raised |-> TRUE, cleared |-> FALSE]
             ELSE [values |-> new_rows, raised |-> FALSE, cleared |-> TRUE]

(***************************************************************************)
(* ws.get_all_records() on the "Opening Balances" cells (read_all_rows,    *)
(* src/app.py:78): one record per data row, keyed by the header; the       *)
(* readers take a missing "Date" key as the empty text.                    *)
(***************************************************************************)
ColumnOf(header, key) == CHOOSE i \in 1..Len(header) : header[i] = key

opening_record(header, row) ==
    OpeningRow(row[ColumnOf(header, "Party Name")],
               IF Contains(header, "Date")
               THEN row[ColumnOf(header, "Date")] ELSE <<>>,
               row[ColumnOf(header, "Debit")],
               row[ColumnOf(header, "Credit")])

get_all_records(values) ==
    IF values = <<>> THEN <<>>
    ELSE [i \in 1..(Len(values) - 1) |->
             opening_record(values[1], values[i + 1])]

(***************************************************************************)
(* The "Opening Balances" tab (_opening_balances_tab, src/app.py:721-807)  *)
(* and the row helpers it calls.  A script run reads the sheet, builds     *)
(* existing (party name -> 0-based index of its last data row) and, when a *)
(* button was pressed, writes by sheet row number (row 1 is the header, so *)
(* data row i is sheet row i + 1).                                         *)
(***************************************************************************)
Sessions == {"s1", "s2"}

IdleSession == [pc |-> "idle", existing |-> <<>>, has_rows |-> FALSE]

IdleSessions == [s \in Sessions |-> IdleSession]

ColumnIndex ==
    [party |-> 1, date |-> 2, debit |-> 3, credit |-> 4,
     name |-> 1, category |-> 2]

BlankCell ==
    [party |-> "", date |-> <<>>, debit |-> 0, credit |-> 0,
     name |-> "", category |-> ""]

BlankRow(row_data) == [f \in DOMAIN row_data |-> BlankCell[f]]

Max(S) == CHOOSE x \in S : \A y \in S : y <= x

build_existing(data_rows) ==
    LET names == {data_rows[i].party : i \in 1..Len(data_rows)} \ {""} IN
    [name \in names |->
        Max({i \in 1..Len(data_rows) : data_rows[i].party = name}) - 1]

row_num(existing, party) == existing[party] + 2

(***************************************************************************)
(* update_row writes the cells of sheet row row_index one by one; cells is *)
(* the number of cells written before a store call raises (all of them:   *)
(* none does, and update_row returns True).  Writing below the last data   *)
(* row extends the sheet; sheet row 1 is the header, which is not part of  *)
(* the data.  A row is a record; ColumnIndex gives the column of a field.  *)
(***************************************************************************)
cells_written(old, row_data, cells) ==
    [f \in DOMAIN row_data |->
        IF ColumnIndex[f] <= cells THEN row_data[f] ELSE old[f]]

update_row(data_rows, row_index, row_data, cells) ==
    LET pos == row_index - 1
        padded == [i \in 1..Max({pos, Len(data_rows)}) |->
                      IF i <= Len(data_rows) THEN data_rows[i]
                      ELSE BlankRow(row_data)]
    IN  [rows |-> IF cells = 0 \/ pos < 1 THEN data_rows
                  ELSE [padded EXCEPT
                           ![pos] = cells_written(@, row_data, cells)],
         ok |-> cells >= Cardinality(DOMAIN row_data)]

delete_row(data_rows, row_index, raises) ==
    LET pos == row_index - 1 IN
    [rows |-> IF raises \/ pos < 1 \/ pos > Len(data_rows) THEN data_rows
              ELSE [i \in 1..(Len(data_rows) - 1) |->
                       IF i < pos THEN data_rows[i] ELSE data_rows[i + 1]],
     ok |-> ~raises]

(***************************************************************************)
(* st.cache_data (src/app.py:72, 236, 244): per function, one entry per    *)
(* argument.  A call with an entry returns its value and does not run the  *)
(* function; a call without one runs the function and keeps what it        *)
(* returns, whatever that is.  clear() drops every entry of the function.  *)
(***************************************************************************)
Hit(value) == [hit |-> TRUE, value |-> value]

clear(c, fn) == [c EXCEPT ![fn] = [k \in DOMAIN @ |-> Miss]]

clear_all(c) ==
    clear(clear(clear(c, "read_all_rows"), "get_parties"), "get_items")

seed_clear(c) == clear(c, "read_all_rows")

(***************************************************************************)
(* The cached readers.  readable tells whether the store answers when the  *)
(* function body runs; when it does not, read_all_rows shows an error and  *)
(* returns [] (src/app.py:81-83).  Each result gives the value returned,   *)
(* the cache after the call and whether an error was shown.                *)
(***************************************************************************)
cached_read_all_rows(c, worksheet_name, store_rows, readable) ==
    IF c.read_all_rows[worksheet_name].hit
    THEN [value |-> c.read_all_rows[worksheet_name].value, cache |-> c,
          error |-> FALSE]
    ELSE LET records == IF readable THEN store_rows ELSE <<>> IN
         [value |-> records,
          cache |-> [c EXCEPT !.read_all_rows[worksheet_name] = Hit(records)],
          error |-> ~readable]

names_in(rows, category) ==
    {rows[i].name : i \in {j \in 1..Len(rows) :
                              category = "" \/ rows[j].category = category}}

cached_get_parties(c, category, parties_rows, readable) ==
    IF c.get_parties[category].hit
    THEN [value |-> c.get_parties[category].value, cache |-> c,
          error |-> FALSE]
    ELSE LET r == cached_read_all_rows(c, PARTIES_SHEET, parties_rows,
                                       readable)
             names == names_in(r.value, category)
         IN  [value |-> names,
              cache |-> [r.cache EXCEPT !.get_parties[category] = Hit(names)],
              error |-> r.error]

cached_get_items(c, category, items_rows, readable) ==
    IF c.get_items[category].hit
    THEN [value |-> c.get_items[category].value, cache |-> c,
          error |-> FALSE]
    ELSE LET r == cached_read_all_rows(c, ITEMS_SHEET, items_rows, readable)
             names == names_in(r.value, category)
         IN  [value |-> names,
              cache |-> [r.cache EXCEPT !.get_items[category] = Hit(names)],
              error |-> r.error]

(***************************************************************************)
(* Master data and the forms (src/app.py:236-249, 313-401).  get_parties   *)
(* and get_items return sorted(set of names); the order only decides the   *)
(* order of the options shown, so the set is kept.  bank_name = None is    *)
(* the empty name.                                                         *)
(***************************************************************************)
MasterRow(name, category) == [name |-> name, category |-> category]

get_parties(rows, category) == names_in(rows, category)

get_items(rows, category) == names_in(rows, category)

all_parties_of(rows) ==
    get_parties(rows, "Purchase") \cup get_parties(rows, "Sale")
        \cup get_parties(rows, "Payment") \cup get_parties(rows, "Bank")

daybook_row(date, slip, vtype, party, item, qty, rate, amount) ==
    [date |-> date, slip |-> slip, vtype |-> vtype, party |-> party,
     item |-> item, qty |-> qty, rate |-> rate, amount |-> amount]

\* Faulty variant: the rows are inserted above the existing rows.
append_rows_on_top(data_rows, rows) == rows \o data_rows

append_rows(data_rows, rows) == data_rows \o rows

reverse_of(voucher_type) ==
    IF voucher_type = "Payment" THEN "Receipt" ELSE "Payment"

payment_rows(date, reference, mode, party_name, voucher_type, amount, bank_name) ==
    LET main == daybook_row(date, reference, voucher_type, party_name, mode,
                            0, 0, amount)
    IN  IF mode = "Bank" /\ bank_name # ""
        THEN <<main, daybook_row(date, reference, reverse_of(voucher_type),
                                 bank_name, "Bank", 0, 0, amount)>>
        ELSE <<main>>

(***************************************************************************)
(* Specifications of the ledger engine.  The sheets hold any rows; one     *)
(* behaviour is one user-triggered call, which runs to completion.  The    *)
(* engine keeps nothing between calls (it recomputes from the sheets each  *)
(* time), so the calls of a longer session are the calls modelled here.    *)
(* Spec runs the balance functions, SpecLedger the "Load Ledger" handler.  *)
(***************************************************************************)
Init ==
    /\ daybook \in SeqsUpTo(VoucherRows, MaxRows)
    /\ openingBalances \in SeqsUpTo(OpeningRows, MaxOpening)
    /\ view = [kind |-> "start"]
    /\ call = NoCall
    /\ obValues = <<>>
    /\ sessions = IdleSessions
    /\ master = NoMaster
    /\ cache = EmptyCache

GetOpeningBalance ==
    /\ view.kind = "start"
    /\ \E party \in Parties, start_date \in QueryDates :
        view' = [kind |-> "opening", party |-> party,
                 start_date |-> start_date,
                 ob |-> get_opening_balance(openingBalances, party,
                                            start_date)]
    /\ UNCHANGED
           <<daybook, openingBalances, call, obValues, sessions, master, cache>>

CalculatePartyBalance ==
    /\ view.kind = "start"
    /\ \E party \in Parties, upto_date \in QueryDates :
        view' = [kind |-> "balance", party |-> party,
                 upto_date |-> upto_date,
                 balance |-> calculate_party_balance(
                                 daybook, openingBalances, party, upto_date)]
    /\ UNCHANGED
           <<daybook, openingBalances, call, obValues, sessions, master, cache>>

LoadLedgerOn(dates) ==
    /\ view.kind = "start"
    /\ \E party \in Parties, start_date \in dates, end_date \in dates :
        view' = load_ledger(daybook, openingBalances, party,
                            start_date, end_date)
    /\ UNCHANGED
           <<daybook, openingBalances, call, obValues, sessions, master, cache>>

LoadLedger == LoadLedgerOn(QueryDates)

Next ==
    \/ GetOpeningBalance
    \/ CalculatePartyBalance

Spec == Init /\ [][Next]_vars

InitLedger ==
    /\ daybook \in SeqsUpTo(LedgerVoucherRows, MaxRows)
    /\ openingBalances \in SeqsUpTo(OpeningRows, MaxOpening)
    /\ view = [kind |-> "start"]
    /\ call = NoCall
    /\ obValues = <<>>
    /\ sessions = IdleSessions
    /\ master = NoMaster
    /\ cache = EmptyCache

NextLedger == LoadLedger

SpecLedger == InitLedger /\ [][NextLedger]_vars

InitScenario ==
    /\ daybook \in
           {s \in SeqsUpTo({ScenarioVouchers[1], ScenarioVouchers[2]}
                              \cup ScenarioOtherVouchers, MaxRows + 2) :
               SelectSeq(s, IsRadha) = ScenarioVouchers}
    /\ openingBalances \in
           {s \in SeqsUpTo({ScenarioOpening, ScenarioOtherOpening},
                            MaxOpening + 1) :
               SelectSeq(s, IsRadha) = <<ScenarioOpening>>}
    /\ view = [kind |-> "start"]
    /\ call = NoCall
    /\ obValues = <<>>
    /\ sessions = IdleSessions
    /\ master = NoMaster
    /\ cache = EmptyCache

NextScenario == LoadLedgerOn(ScenarioDates)

SpecScenario == InitScenario /\ [][NextScenario]_vars

(***************************************************************************)
(* The engine on a Daybook with rows whose date text is not a date: month  *)
(* 13, an empty cell, the 30th of February, and a year-first text.         *)
(***************************************************************************)
BadDateVoucherRows ==
    {Voucher(D2, "Sale", "Radha", 300), Voucher(D3, "Purchase", "Radha", 900),
     Voucher(BadDateText, "Sale", "Radha", 100),
     Voucher(<<>>, "Payment", "Radha", 100),
     Voucher(<<2, 30, 2024>>, "Purchase", "Radha", 100),
     Voucher(<<2024, 4, 1>>, "Receipt", "Radha", 100)}

InitBadDates ==
    /\ daybook \in SeqsUpTo(BadDateVoucherRows, MaxRows)
    /\ openingBalances \in SeqsUpTo(OpeningRows, MaxOpening)
    /\ view = [kind |-> "start"]
    /\ call = NoCall
    /\ obValues = <<>>
    /\ sessions = IdleSessions
    /\ master = NoMaster
    /\ cache = EmptyCache

NextBadDates ==
    \/ CalculatePartyBalance
    \/ LoadLedger

SpecBadDates == InitBadDates /\ [][NextBadDates]_vars

(***************************************************************************)
(* The migration, as seed_master_data runs it at the start of a session,   *)
(* on a legacy sheet, an already migrated sheet or an empty sheet, in any  *)
(* year and with any store call failing.  A sheet edited by hand may hold  *)
(* an empty row.                                                           *)
(***************************************************************************)
Years == {2024, 2025}

Faults == {"none", "worksheet", "row_values", "get_all_values", "clear",
           "update"}

LegacyRows == {<<"Radha", 500, 0>>, <<"Raj", 0, 1000>>, <<"", 0, 0>>}

DatedRows == {<<"Radha", D2, 500, 0>>, <<"Raj", D3, 0, 1000>>}

InitMigration ==
    /\ daybook = <<>>
    /\ obValues \in
           {<<>>}
           \cup {<<LegacyHeader>> \o s :
                    s \in SeqsUpTo(LegacyRows, MaxOpening + 1)}
           \cup {<<DatedHeader>> \o s :
                    s \in SeqsUpTo(DatedRows, MaxOpening + 1)}
    /\ openingBalances = get_all_records(obValues)
    /\ view = [kind |-> "start"]
    /\ call = NoCall
    /\ sessions = IdleSessions
    /\ master = NoMaster
    /\ cache = EmptyCache

MigrateOpeningBalancesSheet ==
    /\ \E year \in Years, fault \in Faults :
        LET m == migrate_opening_balances_sheet(obValues, year, fault) IN
        /\ obValues' = m.values
        /\ openingBalances' = get_all_records(m.values)
        /\ view' = [kind |-> "migration", year |-> year, fault |-> fault,
                    raised |-> m.raised, cleared |-> m.cleared]
        /\ cache' = IF m.cleared THEN clear(cache, "read_all_rows")
                    ELSE cache
    /\ UNCHANGED <<daybook, call, sessions, master>>

NextMigration == MigrateOpeningBalancesSheet

SpecMigration == InitMigration /\ [][NextMigration]_vars

(***************************************************************************)
(* Concurrent sessions on the "Opening Balances" tab.  A script run of a   *)
(* session reads the sheet (OpeningBalancesTabRead; a failed read gives no *)
(* rows) and later in the same run, when "Save Opening Balance" or         *)
(* "Remove" was pressed, writes; the store calls of other sessions may     *)
(* come in between.  append_row is taken by its result (its attempts are   *)
(* SpecRetry's subject).  The sheet is kept to MaxOpening + 1 data rows.   *)
(***************************************************************************)
TabOpeningRows ==
    {OpeningRow(p, D2, a[1], a[2]) :
        p \in Parties, a \in {<<500, 0>>, <<0, 1000>>}}

OnePerParty(rows) ==
    \A i, j \in 1..Len(rows) :
        (rows[i].party = rows[j].party /\ rows[i].party # "") => i = j

InitOpeningTab ==
    /\ daybook = <<>>
    /\ openingBalances \in
           {t \in SeqsUpTo(TabOpeningRows, MaxOpening + 1) : OnePerParty(t)}
    /\ view = [kind |-> "start"]
    /\ call = NoCall
    /\ obValues = <<>>
    /\ sessions = IdleSessions
    /\ master = NoMaster
    /\ cache = EmptyCache

OpeningBalancesTabRead(s) ==
    /\ sessions[s].pc = "idle"
    /\ \E raises \in BOOLEAN :
        LET data_rows == IF raises THEN <<>> ELSE openingBalances IN
        sessions' = [sessions EXCEPT ![s] =
                        [pc |-> "rendered",
                         existing |-> build_existing(data_rows),
                         has_rows |-> data_rows # <<>>]]
    /\ UNCHANGED
           <<daybook, openingBalances, view, call, obValues, master, cache>>

OpeningBalancesTabDone(s) ==
    /\ sessions[s].pc = "rendered"
    /\ sessions' = [sessions EXCEPT ![s] = IdleSession]
    /\ view' = [kind |-> "rendered", session |-> s]
    /\ UNCHANGED <<daybook, openingBalances, call, obValues, master, cache>>

SaveOpeningBalance(s) ==
    /\ sessions[s].pc = "rendered"
    /\ \E row_data \in TabOpeningRows, cells \in {0, 2, 4} :
        LET existing == sessions[s].existing
            party == row_data.party
        IN
        IF party \in DOMAIN existing
        THEN LET u == update_row(openingBalances, row_num(existing, party),
                                 row_data, cells)
             IN  /\ Len(u.rows) <= MaxOpening + 1
                 /\ openingBalances' = u.rows
                 /\ view' = [kind |-> "ob_save", session |-> s,
                             party |-> party, row_data |-> row_data,
                             how |-> "update", ok |-> u.ok]
        ELSE /\ Len(openingBalances) < MaxOpening + 1
             /\ openingBalances' =
                    IF cells = 4 THEN Append(openingBalances, row_data)
                    ELSE openingBalances
             /\ view' = [kind |-> "ob_save", session |-> s,
                         party |-> party, row_data |-> row_data,
                         how |-> "append", ok |-> cells = 4]
    /\ sessions' = [sessions EXCEPT ![s] = IdleSession]
    /\ cache' = IF view'.ok THEN clear(cache, "read_all_rows") ELSE cache
    /\ UNCHANGED <<daybook, call, obValues, master>>

RemoveOpeningBalance(s) ==
    /\ sessions[s].pc = "rendered"
    /\ sessions[s].has_rows
    /\ \E del_party \in DOMAIN sessions[s].existing, raises \in BOOLEAN :
        LET d == delete_row(openingBalances,
                            row_num(sessions[s].existing, del_party), raises)
        IN  /\ openingBalances' = d.rows
            /\ view' = [kind |-> "ob_remove", session |-> s,
                        party |-> del_party, ok |-> d.ok]
    /\ sessions' = [sessions EXCEPT ![s] = IdleSession]
    /\ cache' = IF view'.ok THEN clear(cache, "read_all_rows") ELSE cache
    /\ UNCHANGED <<daybook, call, obValues, master>>

NextOpeningTab ==
    \E s \in Sessions :
        \/ OpeningBalancesTabRead(s)
        \/ OpeningBalancesTabDone(s)
        \/ SaveOpeningBalance(s)
        \/ RemoveOpeningBalance(s)

SpecOpeningTab == InitOpeningTab /\ [][NextOpeningTab]_vars

(***************************************************************************)
(* One session working through the pages (main, src/app.py:813-838): each *)
(* step is a script run in which a button was pressed.  The reads are      *)
(* those of a coherent cache (the cache is the subject of SpecCache), the  *)
(* appends are taken by their result.  The forms are filled with one date, *)
(* one amount, voucher type Payment; the master data comes from two party  *)
(* rows and one item row and holds no row twice; the Daybook is kept to    *)
(* MaxRows rows.                                                           *)
(***************************************************************************)
PartyRows == {MasterRow("Radha", "Sale"), MasterRow("Icici", "Bank")}

ItemRows == {MasterRow("Ap25", "Sale")}

MasterRowsOf(tab) == IF tab = "Parties" THEN PartyRows ELSE ItemRows

NoDuplicates(rows) ==
    \A i, j \in 1..Len(rows) : rows[i] = rows[j] => i = j

FormsOpeningRows ==
    {OpeningRow("Radha", D2, 500, 0), OpeningRow("Radha", D2, 0, 1000)}

InitForms ==
    /\ daybook = <<>>
    /\ openingBalances = <<>>
    /\ view = [kind |-> "start"]
    /\ call = NoCall
    /\ obValues = <<>>
    /\ sessions = IdleSessions
    /\ master \in
           {[Parties |-> ps, Items |-> is] :
               ps \in {t \in SeqsUpTo(PartyRows, 2) : NoDuplicates(t)},
               is \in SeqsUpTo(ItemRows, 1)}
    /\ cache = EmptyCache

EntryForm(entry_type) ==
    /\ LET parties == get_parties(master.Parties, entry_type)
           items_list == get_items(master.Items, entry_type)
       IN
       IF parties = {}
       THEN /\ view' = [kind |-> "entry", entry_type |-> entry_type,
                        warning |-> "no_parties", ok |-> FALSE]
            /\ daybook' = daybook
       ELSE IF items_list = {}
       THEN /\ view' = [kind |-> "entry", entry_type |-> entry_type,
                        warning |-> "no_items", ok |-> FALSE]
            /\ daybook' = daybook
       ELSE \E party_name \in parties, item_type \in items_list,
               ok \in BOOLEAN :
            LET rows == <<daybook_row(D2, "S1", entry_type, party_name,
                                      item_type, 1, 300, 300)>>
            IN  /\ Len(daybook) + Len(rows) <= MaxRows
                /\ daybook' = IF ok THEN append_rows(daybook, rows)
                              ELSE daybook
                /\ view' = [kind |-> "entry", entry_type |-> entry_type,
                            warning |-> "none", ok |-> ok]
    /\ cache' = IF daybook' # daybook THEN clear(cache, "read_all_rows")
                ELSE cache
    /\ UNCHANGED <<openingBalances, call, obValues, sessions, master>>

PaymentReceipt ==
    /\ \E mode \in {"Cash", "Bank"} :
       LET all_parties == all_parties_of(master.Parties)
           bank_parties == get_parties(master.Parties, "Bank")
       IN
       IF all_parties = {}
       THEN /\ view' = [kind |-> "payment", mode |-> mode,
                        warning |-> "no_parties", ok |-> FALSE]
            /\ daybook' = daybook
       ELSE \E party_name \in all_parties, ok \in BOOLEAN,
               bank_name \in IF mode = "Bank" /\ bank_parties # {}
                             THEN bank_parties ELSE {""} :
            LET rows == payment_rows(D2, "R1", mode, party_name, "Payment",
                                     300, bank_name)
            IN  /\ Len(daybook) + Len(rows) <= MaxRows
                /\ daybook' = IF ok THEN append_rows(daybook, rows)
                              ELSE daybook
                /\ view' = [kind |-> "payment", mode |-> mode,
                            warning |-> IF mode = "Bank" /\ bank_parties = {}
                                        THEN "no_bank" ELSE "none",
                            ok |-> ok]
    /\ cache' = IF daybook' # daybook THEN clear(cache, "read_all_rows")
                ELSE cache
    /\ UNCHANGED <<openingBalances, call, obValues, sessions, master>>

PartyLedger ==
    /\ LET all_parties == get_parties(master.Parties, "") IN
       IF all_parties = {}
       THEN view' = [kind |-> "no_parties"]
       ELSE \E party \in all_parties :
            view' = load_ledger(daybook, openingBalances, party,
                                strptime(D1).ord, strptime(D3).ord)
    /\ UNCHANGED
           <<daybook, openingBalances, call, obValues, sessions, master, cache>>

Dashboard ==
    /\ LET all_parties == {daybook[i].party : i \in 1..Len(daybook)}
           bal(party) == calculate_party_balance(daybook, openingBalances,
                                                 party, strptime(D3).ord)
       IN  view' = [kind |-> "dashboard",
                    final_summary |->
                        {<<party, bal(party)>> : party \in
                            {q \in all_parties : Abs(bal(q)) > 0}}]
    /\ UNCHANGED
           <<daybook, openingBalances, call, obValues, sessions, master, cache>>

MasterDataDelete(tab) ==
    /\ \E idx \in 0..(Len(master[tab]) - 1), raises \in BOOLEAN :
       LET d == delete_row(master[tab], idx + 2, raises) IN
       /\ master' = [master EXCEPT ![tab] = d.rows]
       /\ view' = [kind |-> "master_delete", tab |-> tab, ok |-> d.ok]
       /\ cache' = IF d.ok THEN clear_all(cache) ELSE cache
    /\ UNCHANGED <<daybook, openingBalances, call, obValues, sessions>>

MasterDataEdit(tab) ==
    /\ \E idx \in 0..(Len(master[tab]) - 1), row_data \in MasterRowsOf(tab),
          cells \in {0, 2} :
       LET u == update_row(master[tab], idx + 2, row_data, cells) IN
       /\ NoDuplicates(u.rows)
       /\ master' = [master EXCEPT ![tab] = u.rows]
       /\ view' = [kind |-> "master_edit", tab |-> tab, ok |-> u.ok]
       /\ cache' = IF u.ok THEN clear_all(cache) ELSE cache
    /\ UNCHANGED <<daybook, openingBalances, call, obValues, sessions>>

MasterDataAdd(tab) ==
    /\ \E row_data \in MasterRowsOf(tab) \cup {MasterRow("", "Sale")},
          ok \in BOOLEAN :
       IF row_data.name = ""
       THEN /\ master' = master
            /\ view' = [kind |-> "master_add", tab |-> tab, ok |-> FALSE]
            /\ cache' = cache
       ELSE /\ NoDuplicates(Append(master[tab], row_data))
            /\ master' = [master EXCEPT ![tab] =
                              IF ok THEN Append(@, row_data) ELSE @]
            /\ view' = [kind |-> "master_add", tab |-> tab, ok |-> ok]
            /\ cache' = IF ok THEN clear_all(cache) ELSE cache
    /\ UNCHANGED <<daybook, openingBalances, call, obValues, sessions>>

FormsSaveOpeningBalance ==
    /\ \E row_data \in FormsOpeningRows, cells \in {0, 4} :
       LET existing == build_existing(openingBalances)
           party == row_data.party
       IN
       /\ party \in get_parties(master.Parties, "")
       /\ IF party \in DOMAIN existing
          THEN LET u == update_row(openingBalances,
                                   row_num(existing, party), row_data, cells)
               IN  /\ openingBalances' = u.rows
                   /\ view' = [kind |-> "ob_save", party |-> party,
                               how |-> "update", ok |-> u.ok]
          ELSE /\ openingBalances' =
                      IF cells = 4 THEN Append(openingBalances, row_data)
                      ELSE openingBalances
               /\ view' = [kind |-> "ob_save", party |-> party,
                           how |-> "append", ok |-> cells = 4]
    /\ cache' = IF view'.ok THEN clear(cache, "read_all_rows") ELSE cache
    /\ UNCHANGED <<daybook, call, obValues, sessions, master>>

FormsRemoveOpeningBalance ==
    /\ openingBalances # <<>>
    /\ get_parties(master.Parties, "") # {}
    /\ LET existing == build_existing(openingBalances) IN
       \E del_party \in DOMAIN existing, raises \in BOOLEAN :
       LET d == delete_row(openingBalances, row_num(existing, del_party),
                           raises)
       IN  /\ openingBalances' = d.rows
           /\ view' = [kind |-> "ob_remove", party |-> del_party,
                       ok |-> d.ok]
    /\ cache' = IF view'.ok THEN clear(cache, "read_all_rows") ELSE cache
    /\ UNCHANGED <<daybook, call, obValues, sessions, master>>

NextForms ==
    \/ \E entry_type \in {"Purchase", "Sale"} : EntryForm(entry_type)
    \/ PaymentReceipt
    \/ PartyLedger
    \/ Dashboard
    \/ \E tab \in {"Parties", "Items"} :
          \/ MasterDataDelete(tab)
          \/ MasterDataEdit(tab)
          \/ MasterDataAdd(tab)
    \/ FormsSaveOpeningBalance
    \/ FormsRemoveOpeningBalance

SpecForms == InitForms /\ [][NextForms]_vars

(***************************************************************************)
(* Sessions over the shared cache.  A new session's first script run seeds *)
(* the master data (main, src/app.py:816-818); a seeded session reads      *)
(* through the cache, enters sales, edits the parties.  The store may fail *)
(* to answer a read; the seeding's own store calls and the appends succeed *)
(* unless said otherwise.  An entry leaves the cache when its ttl is over; *)
(* the entries of equal ttl (120 s: read_all_rows, 300 s: get_parties and  *)
(* get_items) are taken to leave together.  The seed lists are cut to the  *)
(* rows of PartyRows and ItemRows.                                         *)
(***************************************************************************)
DEFAULT_PARTIES == <<MasterRow("Radha", "Sale"), MasterRow("Icici", "Bank")>>

DEFAULT_ITEMS == <<MasterRow("Ap25", "Sale")>>

NewSessions == [s \in Sessions |-> [IdleSession EXCEPT !.pc = "new"]]

Sheet(worksheet_name) ==
    CASE worksheet_name = DAYBOOK_SHEET -> daybook
      [] worksheet_name = OPENING_BAL_SHEET -> openingBalances
      [] worksheet_name = PARTIES_SHEET -> master.Parties
      [] worksheet_name = ITEMS_SHEET -> master.Items

InitCache ==
    /\ daybook = <<>>
    /\ obValues = <<LegacyHeader, <<"Radha", 500, 0>>>>
    /\ openingBalances = get_all_records(obValues)
    /\ view = [kind |-> "start"]
    /\ call = NoCall
    /\ sessions = NewSessions
    /\ master = NoMaster
    /\ cache = EmptyCache

SeedMasterData(s) ==
    /\ sessions[s].pc = "new"
    /\ \E fault \in {"none", "clear"} :
       LET m == migrate_opening_balances_sheet(obValues, 2024, fault)
           c1 == IF m.cleared THEN clear(cache, "read_all_rows") ELSE cache
           seed_parties == Len(master.Parties) = 0
           seed_items == Len(master.Items) = 0
       IN
       /\ obValues' = m.values
       /\ openingBalances' = get_all_records(m.values)
       /\ master' =
              [Parties |-> IF seed_parties
                           THEN append_rows(master.Parties, DEFAULT_PARTIES)
                           ELSE master.Parties,
               Items |-> IF seed_items
                         THEN append_rows(master.Items, DEFAULT_ITEMS)
                         ELSE master.Items]
       /\ cache' = IF seed_parties \/ seed_items THEN seed_clear(c1) ELSE c1
       /\ view' = [kind |-> "written", by |-> "seed",
                   sheets |-> (IF seed_parties THEN {PARTIES_SHEET} ELSE {})
                       \cup (IF seed_items THEN {ITEMS_SHEET} ELSE {})
                       \cup (IF m.cleared THEN {OPENING_BAL_SHEET} ELSE {})]
    /\ sessions' = [sessions EXCEPT ![s].pc = "idle"]
    /\ UNCHANGED <<daybook, call>>

ReadAllRows(s) ==
    /\ sessions[s].pc = "idle"
    /\ \E worksheet_name \in {DAYBOOK_SHEET, OPENING_BAL_SHEET},
          readable \in BOOLEAN :
       LET r == cached_read_all_rows(cache, worksheet_name,
                                     Sheet(worksheet_name), readable)
       IN  /\ cache' = r.cache
           /\ view' = [kind |-> "read", fn |-> "read_all_rows",
                       arg |-> worksheet_name, readable |-> readable,
                       error |-> r.error, value |-> r.value]
    /\ UNCHANGED <<daybook, openingBalances, call, obValues, sessions, master>>

GetParties(s) ==
    /\ sessions[s].pc = "idle"
    /\ \E readable \in BOOLEAN :
       LET r == cached_get_parties(cache, "", master.Parties, readable) IN
       /\ cache' = r.cache
       /\ view' = [kind |-> "read", fn |-> "get_parties", arg |-> "",
                   readable |-> readable, error |-> r.error,
                   value |-> r.value]
    /\ UNCHANGED <<daybook, openingBalances, call, obValues, sessions, master>>

SaleEntry(s) ==
    /\ sessions[s].pc = "idle"
    /\ \E readable \in BOOLEAN :
       LET p == cached_get_parties(cache, "Sale", master.Parties, readable)
           i == cached_get_items(p.cache, "Sale", master.Items, readable)
       IN
       IF p.value = {}
       THEN /\ cache' = p.cache
            /\ daybook' = daybook
            /\ view' = [kind |-> "entry", entry_type |-> "Sale",
                        warning |-> "no_parties", ok |-> FALSE]
       ELSE IF i.value = {}
       THEN /\ cache' = i.cache
            /\ daybook' = daybook
            /\ view' = [kind |-> "entry", entry_type |-> "Sale",
                        warning |-> "no_items", ok |-> FALSE]
       ELSE \E party_name \in p.value, item_type \in i.value :
            /\ Len(daybook) < MaxRows - 1
            /\ daybook' = append_rows(daybook,
                              <<daybook_row(D2, "S1", "Sale", party_name,
                                            item_type, 1, 300, 300)>>)
            /\ cache' = clear(i.cache, "read_all_rows")
            /\ view' = [kind |-> "written", by |-> "entry",
                        sheets |-> {DAYBOOK_SHEET}]
    /\ UNCHANGED <<openingBalances, call, obValues, sessions, master>>

EditParties(s) ==
    /\ sessions[s].pc = "idle"
    /\ \/ MasterDataDelete("Parties")
       \/ MasterDataAdd("Parties")

TtlExpires ==
    /\ \/ /\ \E k \in SheetNames : cache.read_all_rows[k].hit
          /\ cache' = clear(cache, "read_all_rows")
       \/ /\ \E k \in CategoryArgs :
                cache.get_parties[k].hit \/ cache.get_items[k].hit
          /\ cache' = clear(clear(cache, "get_parties"), "get_items")
    /\ UNCHANGED
           <<daybook, openingBalances, view, call, obValues, sessions, master>>

NextCache ==
    \/ \E s \in Sessions :
          \/ SeedMasterData(s)
          \/ ReadAllRows(s)
          \/ GetParties(s)
          \/ SaleEntry(s)
          \/ EditParties(s)
    \/ TtlExpires

SpecCache == InitCache /\ [][NextCache]_vars

(***************************************************************************)
(* One append call against a store that may fail.  append_row writes an    *)
(* opening-balance row (_opening_balances_tab), append_rows_batch the rows *)
(* of a voucher (the entry forms).  The callers pass no retries argument,  *)
(* so the program runs with retries = 2; the call is modelled for every    *)
(* retries in 0..MaxRetries.  The loop runs on until it returns, and every *)
(* attempt returns or raises: weak fairness of the steps.                  *)
(***************************************************************************)
RetryVoucherRows ==
    {Voucher(D2, "Payment", "Radha", 300), Voucher(D2, "Receipt", "Raj", 300)}

RetryOpeningRows ==
    {OpeningRow("Radha", D2, 500, 0), OpeningRow("Raj", D2, 0, 1000)}

InitRetry ==
    /\ daybook \in SeqsUpTo(RetryVoucherRows, MaxRows - 1)
    /\ openingBalances \in SeqsUpTo(RetryOpeningRows, MaxOpening)
    /\ view = [kind |-> "start"]
    /\ call = NoCall
    /\ obValues = <<>>
    /\ sessions = IdleSessions
    /\ master = NoMaster
    /\ cache = EmptyCache

CallAppendRow ==
    /\ call.status = "idle"
    /\ \E row_data \in RetryOpeningRows, retries \in 0..MaxRetries :
        call' = new_call("append_row", "Opening Balances", row_data, retries)
    /\ UNCHANGED
           <<daybook, openingBalances, view, obValues, sessions, master, cache>>

CallAppendRowsBatch ==
    /\ call.status = "idle"
    /\ \E rows \in SeqsUpTo(RetryVoucherRows, 2), retries \in 0..MaxRetries :
        /\ rows # <<>>
        /\ call' = new_call("append_rows_batch", "Daybook", rows, retries)
    /\ UNCHANGED
           <<daybook, openingBalances, view, obValues, sessions, master, cache>>

AppendRowAttempt ==
    /\ call.status = "running"
    /\ call.fn = "append_row"
    /\ call.attempt <= call.retries
    /\ \E outcome \in Outcomes :
        /\ call' = append_attempt(call, outcome)
        /\ openingBalances' =
               IF outcome = "ok"
               THEN Append(openingBalances, call.data)
               ELSE openingBalances
    /\ UNCHANGED <<daybook, view, obValues, sessions, master, cache>>

AppendRowsBatchAttempt ==
    /\ call.status = "running"
    /\ call.fn = "append_rows_batch"
    /\ call.attempt <= call.retries
    /\ \E outcome \in Outcomes :
        /\ call' = append_attempt(call, outcome)
        /\ daybook' =
               IF outcome = "ok" THEN daybook \o call.data ELSE daybook
    /\ UNCHANGED <<openingBalances, view, obValues, sessions, master, cache>>

NextRetry ==
    \/ CallAppendRow
    \/ CallAppendRowsBatch
    \/ AppendRowAttempt
    \/ AppendRowsBatchAttempt

SpecRetry == InitRetry /\ [][NextRetry]_vars /\ WF_vars(NextRetry)

(***************************************************************************)
(* Reference definitions for the properties: the sign convention, the sum  *)
(* of a set of Daybook rows, the row of the opening-balance sheet that     *)
(* speaks for a party, and the cutover it implies for a query date.        *)
(***************************************************************************)
Signed(v) ==
    IF v.vtype \in {"Sale", "Payment"} THEN v.amount
    ELSE IF v.vtype \in {"Purchase", "Receipt"} THEN 0 - v.amount
    ELSE 0

RECURSIVE SignedSum(_, _)
SignedSum(rows, I) ==
    IF I = {} THEN 0
    ELSE LET i == CHOOSE k \in I : TRUE
         IN  Signed(rows[i]) + SignedSum(rows, I \ {i})

\* Index of the party's first opening-balance row, 0 when it has none.
FirstRowOf(ob_rows, party) ==
    LET M == {i \in 1..Len(ob_rows) : ob_rows[i].party = party}
    IN  IF M = {} THEN 0 ELSE CHOOSE i \in M : \A j \in M : i <= j

\* The party's row is dated, and dated on or before `date`.
Applicable(ob_rows, party, date) ==
    LET i == FirstRowOf(ob_rows, party)
    IN  /\ i # 0
        /\ strptime(ob_rows[i].date).ok
        /\ strptime(ob_rows[i].date).ord <= date

\* The party's row is dated strictly after `date`.
Future(ob_rows, party, date) ==
    LET i == FirstRowOf(ob_rows, party)
    IN  /\ i # 0
        /\ strptime(ob_rows[i].date).ok
        /\ strptime(ob_rows[i].date).ord > date

\* Rows of the party with a valid date in lo..hi.
DatedWithin(rows, party, lo, hi) ==
    {k \in 1..Len(rows) :
        /\ rows[k].party = party
        /\ strptime(rows[k].date).ok
        /\ lo <= strptime(rows[k].date).ord
        /\ strptime(rows[k].date).ord <= hi}

\* The cutover in force for `date`: the date of the party's row when that
\* row is applicable, else the beginning of time.
CutoverFor(ob_rows, party, date) ==
    IF Applicable(ob_rows, party, date)
    THEN strptime(ob_rows[FirstRowOf(ob_rows, party)].date).ord
    ELSE 0

RemoveAt(s, i) == SubSeq(s, 1, i - 1) \o SubSeq(s, i + 1, Len(s))

(***************************************************************************)
(* C1.  Sign convention of calculate_party_balance: a counted voucher of   *)
(* the party (dated on or after the cutover in force and not after the     *)
(* query date) moves the balance by +amount when it is a Sale or Payment   *)
(* and by -amount when it is a Purchase or Receipt, whatever its item,     *)
(* quantity and rate.  Stated on the log with the voucher against the log  *)
(* without it, for a voucher at any position of the log.                   *)
(***************************************************************************)
C1_SignConvention ==
    view.kind = "balance" =>
        \A i \in DatedWithin(daybook, view.party,
                             CutoverFor(openingBalances, view.party,
                                        view.upto_date),
                             view.upto_date) :
            LET v == daybook[i]
                without == calculate_party_balance(
                               RemoveAt(daybook, i), openingBalances,
                               view.party, view.upto_date)
                other == [daybook EXCEPT ![i] =
                             [v EXCEPT !.item = "Tin", !.qty = 7, !.rate = 3]]
            IN  /\ v.vtype \in {"Sale", "Payment"} =>
                       view.balance = without + v.amount
                /\ v.vtype \in {"Purchase", "Receipt"} =>
                       view.balance = without - v.amount
                /\ calculate_party_balance(other, openingBalances,
                                           view.party, view.upto_date)
                       = view.balance

C1_Witness ==
    /\ view.kind = "balance"
    /\ Applicable(openingBalances, view.party, view.upto_date)
    /\ \E i, j \in DatedWithin(daybook, view.party,
                               CutoverFor(openingBalances, view.party,
                                          view.upto_date),
                               view.upto_date) :
        daybook[i].vtype = "Payment" /\ daybook[j].vtype = "Purchase"

(***************************************************************************)
(* C2.  Opening balance cutover: when the party's opening-balance row is   *)
(* dated c on or before the query date, the balance is debit - credit of   *)
(* that row plus the signed sum of exactly the party's vouchers dated in   *)
(* c..date: a voucher before c is left out, one dated c is counted.        *)
(***************************************************************************)
C2_OpeningCutover ==
    (view.kind = "balance"
        /\ Applicable(openingBalances, view.party, view.upto_date)) =>
        LET row == openingBalances[FirstRowOf(openingBalances, view.party)]
            c == strptime(row.date).ord
        IN  view.balance =
                (row.debit - row.credit)
                + SignedSum(daybook,
                            DatedWithin(daybook, view.party, c,
                                        view.upto_date))

C2_Witness ==
    /\ view.kind = "balance"
    /\ Applicable(openingBalances, view.party, view.upto_date)
    /\ LET c == CutoverFor(openingBalances, view.party, view.upto_date)
       IN  /\ DatedWithin(daybook, view.party, 1, c - 1) # {}
           /\ DatedWithin(daybook, view.party, c, c) # {}

(***************************************************************************)
(* C3.  A future opening balance is inert: when the party's row is dated   *)
(* strictly after the query date, the balance is the signed sum, from      *)
(* zero, of all the party's vouchers dated on or before the query date.    *)
(* The right-hand side mentions no field of the row.                       *)
(***************************************************************************)
C3_FutureOpeningInert ==
    (view.kind = "balance"
        /\ Future(openingBalances, view.party, view.upto_date)) =>
        view.balance =
            SignedSum(daybook,
                      DatedWithin(daybook, view.party, 1, view.upto_date))

C3_Witness ==
    /\ view.kind = "balance"
    /\ Future(openingBalances, view.party, view.upto_date)
    /\ DatedWithin(daybook, view.party, 1, view.upto_date) # {}
    /\ view.balance # 0

(***************************************************************************)
(* C4.  get_opening_balance returns (0, absent) when the party has no row, *)
(* (0, absent) when its first row is dated strictly after the requested    *)
(* date, and (debit - credit, present) of the first row otherwise; a row   *)
(* dated exactly the requested date is present.                            *)
(***************************************************************************)
C4_OpeningBalanceLookup ==
    view.kind = "opening" =>
        LET i == FirstRowOf(openingBalances, view.party) IN
        IF i = 0 \/ Future(openingBalances, view.party, view.start_date)
        THEN view.ob = [balance |-> 0, found |-> FALSE]
        ELSE view.ob = [balance |-> openingBalances[i].debit
                                    - openingBalances[i].credit,
                        found |-> TRUE]

C4_Witness ==
    /\ view.kind = "opening"
    /\ view.ob.found
    /\ LET i == FirstRowOf(openingBalances, view.party)
       IN  /\ i # 0
           /\ strptime(openingBalances[i].date).ok
           /\ strptime(openingBalances[i].date).ord = view.start_date

(***************************************************************************)
(* Reference definitions for the statement: the stored opening value in    *)
(* force at a date, the opening value a statement has to display, and sums *)
(* of the columns of a range of statement rows.                            *)
(***************************************************************************)
StoredOpening(ob_rows, party, date) ==
    LET i == FirstRowOf(ob_rows, party)
    IN  IF i = 0 \/ Future(ob_rows, party, date) THEN 0
        ELSE ob_rows[i].debit - ob_rows[i].credit

OpeningValue(rows, ob_rows, party, from) ==
    StoredOpening(ob_rows, party, from)
    + SignedSum(rows, DatedWithin(rows, party,
                                  CutoverFor(ob_rows, party, from), from - 1))

RECURSIVE NetOfRows(_, _)
NetOfRows(df, I) ==
    IF I = {} THEN 0
    ELSE LET i == CHOOSE k \in I : TRUE
         IN  df[i].Debit - df[i].Credit + NetOfRows(df, I \ {i})

Displayed(df) == df[1].Debit - df[1].Credit

(***************************************************************************)
(* C5.  Statement ordering: the voucher rows of a statement, after the     *)
(* opening row, are in non-decreasing date order, whatever the storage     *)
(* order of the Daybook.                                                   *)
(***************************************************************************)
C5_StatementAscending ==
    view.kind = "ledger" =>
        \A i, j \in 2..Len(view.df) :
            i < j => strptime(view.df[i].Date).ord
                        <= strptime(view.df[j].Date).ord

(***************************************************************************)
(* C6.  Ordering stability: the vouchers of one date that appear in a      *)
(* statement appear in their storage order: the statement rows of a date   *)
(* are, one for one and in order, the party's Daybook rows of that date.   *)
(***************************************************************************)
C6_OrderingStability ==
    view.kind = "ledger" =>
        \A t \in ValidDateTexts :
            LET OnT(row) == row.Date = t
                StoredOnT(r) == r.party = view.party /\ r.date = t
                shown == SelectSeq(Tail(view.df), OnT)
                stored == SelectSeq(daybook, StoredOnT)
            IN  shown # <<>> =>
                    /\ Len(shown) = Len(stored)
                    /\ \A k \in 1..Len(shown) :
                        /\ shown[k].Type = stored[k].vtype
                        /\ shown[k].Slip = stored[k].slip
                        /\ shown[k].Item = stored[k].item
                        /\ shown[k].Debit + shown[k].Credit = stored[k].amount

C6_Witness ==
    /\ view.kind = "ledger"
    /\ \E i, j \in 2..Len(view.df) :
        /\ i < j
        /\ view.df[i].Date = view.df[j].Date
        /\ view.df[i].Type # view.df[j].Type

(***************************************************************************)
(* C7.  Running balance: the opening row's balance is the opening value    *)
(* it displays, every later row's balance is the previous balance plus its *)
(* debit minus its credit, and the last balance (the net balance shown) is *)
(* the opening value plus the debits minus the credits of the voucher      *)
(* rows.                                                                   *)
(***************************************************************************)
C7_RunningBalance ==
    view.kind = "ledger" =>
        LET df == view.df
            n == Len(df)
        IN  /\ n >= 1
            /\ df[1].Balance = Displayed(df)
            /\ \A i \in 2..n :
                df[i].Balance = df[i - 1].Balance + df[i].Debit - df[i].Credit
            /\ df[n].Balance = Displayed(df) + NetOfRows(df, 2..n)
            /\ view.net_balance = df[n].Balance

C7_Witness ==
    /\ view.kind = "ledger"
    /\ Len(view.df) = 3
    /\ Displayed(view.df) < 0
    /\ view.df[2].Credit > 0
    /\ view.df[3].Debit > 0

C9_NoDataSignal ==
    view.kind \in {"ledger", "no_entries"} =>
        LET nodata ==
                /\ OpeningValue(daybook, openingBalances, view.party,
                                view.start_date) = 0
                /\ DatedWithin(daybook, view.party,
                               view.start_date, view.end_date) = {}
        IN  /\ (view.kind = "no_entries") <=> nodata
            /\ view.kind = "ledger" =>
                   /\ Len(view.df) >= 1
                   /\ view.df[1].Type = "Opening Balance"
                   /\ ~(Len(view.df) = 1 /\ Displayed(view.df) = 0)

C9_Witness ==
    /\ view.kind = "no_entries"
    /\ DatedWithin(daybook, view.party, 1, view.start_date - 1) # {}
    /\ FirstRowOf(openingBalances, view.party) # 0

(***************************************************************************)
(* C10.  End-to-end scenario: Radha, opening balance (debit 0, credit      *)
(* 1000) as of 04-01-2024, a Sale of 500 on 04-10-2024 and a Payment of    *)
(* 200 on 05-01-2024; the statement over 04-01-2024..05-31-2024 has        *)
(* exactly the rows Opening (credit 1000, balance -1000), Sale (debit 500, *)
(* balance -500), Payment (debit 200, balance -300), totals debit 700 and  *)
(* credit 1000 (the opening row included) and final balance -300.          *)
(***************************************************************************)
ScenarioQuery ==
    /\ view.kind \in {"ledger", "no_entries"}
    /\ view.party = "Radha"
    /\ view.start_date = strptime(S1).ord
    /\ view.end_date = strptime(S4).ord

C10_EndToEnd ==
    ScenarioQuery =>
        /\ view.kind = "ledger"
        /\ Len(view.df) = 3
        /\ view.df[1].Type = "Opening Balance"
        /\ view.df[1].Debit = 0
        /\ view.df[1].Credit = 1000
        /\ view.df[1].Balance = 0 - 1000
        /\ view.df[2].Type = "Sale"
        /\ view.df[2].Date = S2
        /\ view.df[2].Debit = 500
        /\ view.df[2].Credit = 0
        /\ view.df[2].Balance = 0 - 500
        /\ view.df[3].Type = "Payment"
        /\ view.df[3].Date = S3
        /\ view.df[3].Debit = 200
        /\ view.df[3].Credit = 0
        /\ view.df[3].Balance = 0 - 300
        /\ view.total_debit = 700
        /\ view.total_credit = 1000
        /\ view.net_balance = 0 - 300

C10_Witness ==
    /\ ScenarioQuery
    /\ view.kind = "ledger"
    /\ Len(daybook) > 2
    /\ Len(openingBalances) > 1

(***************************************************************************)
(* C15.  Unparseable voucher dates are skipped, not fatal: on a Daybook    *)
(* holding rows whose date text is not a valid MM-DD-YYYY date, the        *)
(* balance and the statement are exactly those of the Daybook with these   *)
(* rows removed.  Validity is stated here on its own, from the calendar.   *)
(***************************************************************************)
MonthLengths == <<31, 28, 31, 30, 31, 30, 31, 31, 30, 31, 30, 31>>

ValidDateText(t) ==
    /\ Len(t) = 3
    /\ t[1] >= 1 /\ t[1] <= 12
    /\ t[3] >= 1 /\ t[3] <= 9999
    /\ t[2] >= 1
    /\ \/ t[2] <= MonthLengths[t[1]]
       \/ t[1] = 2 /\ t[2] = 29
            /\ (t[3] % 400 = 0 \/ (t[3] % 4 = 0 /\ t[3] % 100 # 0))

HasValidDate(r) == ValidDateText(r.date)

C15_BadDatesSkipped ==
    LET clean == SelectSeq(daybook, HasValidDate) IN
    /\ view.kind = "balance" =>
           view.balance = calculate_party_balance(
                              clean, openingBalances, view.party,
                              view.upto_date)
    /\ view.kind \in {"ledger", "no_entries"} =>
           view = load_ledger(clean, openingBalances, view.party,
                              view.start_date, view.end_date)

C15_Witness ==
    /\ view.kind = "ledger"
    /\ Len(view.df) = 2
    /\ Len(daybook) = 2
    /\ \E i \in 1..Len(daybook) :
        daybook[i].party = view.party /\ daybook[i].date = <<2, 30, 2024>>

(***************************************************************************)
(* C17.  Dashboard and ledger agree: whenever a statement is produced for  *)
(* fromDate <= toDate, its final running balance is                        *)
(* calculate_party_balance(party, toDate).                                 *)
(***************************************************************************)
C17_DashboardLedgerAgree ==
    (view.kind = "ledger" /\ view.start_date <= view.end_date) =>
        view.net_balance =
            calculate_party_balance(daybook, openingBalances, view.party,
                                    view.end_date)

(***************************************************************************)
(* C12.  Bounded retry on append: with retries = n >= 0 the call makes at  *)
(* most n + 1 attempts against the store and always ends in True or in a   *)
(* reported False; every attempt but the last made was a rate-limit        *)
(* failure; the call returns True exactly when its last attempt succeeded, *)
(* and False (with one error message) exactly when its last attempt failed *)
(* otherwise than by rate limit, or by rate limit on attempt n + 1.        *)
(***************************************************************************)
C12_RetryInvariant ==
    call.status # "idle" =>
        LET n == Len(call.outcomes) IN
        /\ n <= call.retries + 1
        /\ n = call.attempt + (IF call.status = "running" THEN 0 ELSE 1)
        /\ \A i \in 1..(n - 1) : call.outcomes[i] = "rate_limit"
        /\ call.status = "running" =>
               /\ n <= call.retries
               /\ \A i \in 1..n : call.outcomes[i] = "rate_limit"
               /\ call.errors = 0
        /\ call.status = "True" =>
               n >= 1 /\ call.outcomes[n] = "ok" /\ call.errors = 0
        /\ call.status = "False" =>
               /\ n >= 1
               /\ call.errors = 1
               /\ \/ call.outcomes[n] \in {"api_error", "exception"}
                  \/ call.outcomes[n] = "rate_limit" /\ n = call.retries + 1
        /\ call.status \in {"running", "True", "False"}

C12_BoundedRetry ==
    /\ []C12_RetryInvariant
    /\ (call.status = "running") ~> (call.status \in {"True", "False"})

C12_Witness ==
    /\ call.status = "False"
    /\ call.retries = 2
    /\ call.outcomes = <<"rate_limit", "rate_limit", "rate_limit">>

(***************************************************************************)
(* C16.  Opening-balance migration: a migration run on a legacy table      *)
(* leaves the dated header and, for every legacy row in order, the row     *)
(* with party, debit and credit unchanged and the date c, for one date c   *)
(* that the migration would have written in any other year as well; a run  *)
(* on a table that is not legacy changes nothing; a run in which a store   *)
(* call fails leaves the table as it was.                                  *)
(***************************************************************************)
FiscalYearStarts == {<<4, 1, y>> : y \in Years}

IsLegacy(values) == values # <<>> /\ values[1] = LegacyHeader

IsLegacyRow(row) == row[1] # ""

WithDate(values, c) ==
    LET rows == SelectSeq(Tail(values), IsLegacyRow) IN
    <<DatedHeader>> \o
        [i \in 1..Len(rows) |-> <<rows[i][1], c, rows[i][2], rows[i][3]>>]

SameInEveryYear(values, result) ==
    \A y \in Years :
        migrate_opening_balances_sheet(values, y, "none").values = result

MigrationStep ==
    view'.kind = "migration" =>
        IF view'.raised \/ ~IsLegacy(obValues)
        THEN obValues' = obValues
        ELSE /\ \E c \in FiscalYearStarts : obValues' = WithDate(obValues, c)
             /\ SameInEveryYear(obValues, obValues')

C16_Migration == [][MigrationStep]_vars

(***************************************************************************)
(* C18.  One opening-balance row per party: from a table with at most one  *)
(* row per party, after any sequence of Save Opening Balance and Remove    *)
(* operations of concurrent sessions, the table holds at most one row per  *)
(* party, and each Save or Remove changes only the row of its party.       *)
(***************************************************************************)
RowsOfOthers(rows, party) ==
    SelectSeq(rows, LAMBDA r : r.party # party)

RowsOf(rows, party) ==
    SelectSeq(rows, LAMBDA r : r.party = party)

C18_OneRowPerParty ==
    [][/\ OnePerParty(openingBalances')
       /\ (view'.kind \in {"ob_save", "ob_remove"}
           /\ openingBalances' # openingBalances) =>
              RowsOfOthers(openingBalances', view'.party)
                  = RowsOfOthers(openingBalances, view'.party)]_vars

(***************************************************************************)
(* What does hold: a Save or Remove that writes to the very table its      *)
(* script run has read (no write of another session and no failed read in  *)
(* between) leaves at most one row per party and the rows of the other     *)
(* parties as they were; a Save that reports success leaves its party      *)
(* exactly the row entered, a Remove that reports success no row.          *)
(***************************************************************************)
WritesWhatItRead(s) ==
    /\ sessions[s].pc = "rendered"
    /\ sessions'[s].pc = "idle"
    /\ view'.kind \in {"ob_save", "ob_remove"}
    /\ view'.session = s
    /\ sessions[s].existing = build_existing(openingBalances)
    /\ OnePerParty(openingBalances)

C18_OneRowPerPartyIsolated ==
    [][\A s \in Sessions :
          WritesWhatItRead(s) =>
              /\ OnePerParty(openingBalances')
              /\ RowsOfOthers(openingBalances', view'.party)
                     = RowsOfOthers(openingBalances, view'.party)
              /\ (view'.kind = "ob_save" /\ view'.ok) =>
                     RowsOf(openingBalances', view'.party)
                         = <<view'.row_data>>
              /\ (view'.kind = "ob_remove" /\ view'.ok) =>
                     RowsOf(openingBalances', view'.party) = <<>>]_vars

(***************************************************************************)
(* C13.  The Daybook is append-only: in every step of the application      *)
(* (entry forms, payment/receipt form, ledger load, dashboard, master-data *)
(* add / edit / delete, opening-balance save / remove) the Daybook before  *)
(* the step is a prefix of the Daybook after it, and the ledger load and   *)
(* the dashboard change neither the Daybook nor the opening balances.      *)
(***************************************************************************)
IsPrefix(s, t) == Len(s) <= Len(t) /\ SubSeq(t, 1, Len(s)) = s

C13_DaybookAppendOnly ==
    [][/\ IsPrefix(daybook, daybook')
       /\ view'.kind \in {"ledger", "no_entries", "no_parties", "dashboard"}
             => (daybook' = daybook /\ openingBalances' = openingBalances)
       /\ view'.kind \in {"master_delete", "master_edit", "master_add",
                          "ob_save", "ob_remove"}
             => daybook' = daybook]_vars

C13_Witness ==
    /\ Len(daybook) = 2
    /\ view.kind = "master_delete"
    /\ view.ok
    /\ master.Parties = <<>>
    /\ openingBalances # <<>>

(***************************************************************************)
(* C14.  Missing master data blocks submission: a form whose category has  *)
(* no entries (no party or no item of the entry type, no party at all for  *)
(* a payment/receipt, no Bank party for a Bank-mode payment/receipt) shows *)
(* a warning and appends nothing; a Bank-mode voucher is appended only     *)
(* together with its reverse entry for a Bank party.                       *)
(***************************************************************************)
C14_MissingMasterDataBlocks ==
    [][/\ view'.kind = "entry" =>
            /\ (get_parties(master.Parties, view'.entry_type) = {}
                \/ get_items(master.Items, view'.entry_type) = {})
                   => (view'.warning # "none" /\ daybook' = daybook)
       /\ view'.kind = "payment" =>
            /\ (all_parties_of(master.Parties) = {}
                \/ (view'.mode = "Bank"
                    /\ get_parties(master.Parties, "Bank") = {}))
                   => (view'.warning # "none" /\ daybook' = daybook)
            /\ (view'.mode = "Bank" /\ daybook' # daybook) =>
                   /\ Len(daybook') = Len(daybook) + 2
                   /\ daybook'[Len(daybook') - 1].item = "Bank"
                   /\ daybook'[Len(daybook')].party
                          \in get_parties(master.Parties, "Bank")
                   /\ daybook'[Len(daybook')].vtype
                          = reverse_of(daybook'[Len(daybook') - 1].vtype)
                   /\ daybook'[Len(daybook')].amount
                          = daybook'[Len(daybook') - 1].amount]_vars

(***************************************************************************)
(* C11.  Read-after-write through the cache: after a write that succeeded  *)
(* (append, batch append, row update, row delete, seeding, migration) no   *)
(* cached read of a written sheet - read_all_rows, or the party / item     *)
(* list derived from it - can return anything but the sheet's content; and *)
(* a read repeated within the TTL with no write between returns the same.  *)
(***************************************************************************)
WrittenSheets ==
    IF view.kind = "written" THEN view.sheets
    ELSE IF view.kind \in {"master_delete", "master_edit", "master_add"}
            /\ view.ok
    THEN {IF view.tab = "Parties" THEN PARTIES_SHEET ELSE ITEMS_SHEET}
    ELSE {}

CachedAs(entry, value) == entry.hit => entry.value = value

CacheFresh(worksheet_name) ==
    /\ CachedAs(cache.read_all_rows[worksheet_name], Sheet(worksheet_name))
    /\ worksheet_name = PARTIES_SHEET =>
           \A k \in CategoryArgs :
               CachedAs(cache.get_parties[k], names_in(master.Parties, k))
    /\ worksheet_name = ITEMS_SHEET =>
           \A k \in CategoryArgs :
               CachedAs(cache.get_items[k], names_in(master.Items, k))

WrittenSheetsFresh == \A n \in WrittenSheets : CacheFresh(n)

RepeatedRead ==
    (/\ view.kind = "read"
     /\ cache[view.fn][view.arg].hit
     /\ view'.kind = "read"
     /\ view'.fn = view.fn
     /\ view'.arg = view.arg) => view'.value = view.value

C11_ReadAfterWrite == [][WrittenSheetsFresh' /\ RepeatedRead]_vars

(***************************************************************************)
(* C19.  A failed read is not remembered as data: a read_all_rows call     *)
(* that fails shows an error and leaves no entry in the cache, and a call  *)
(* made while the store is readable returns the rows the store holds.      *)
(***************************************************************************)
C19_FailedReadNotCached ==
    (view.kind = "read" /\ view.fn = "read_all_rows") =>
        /\ view.error => ~cache.read_all_rows[view.arg].hit
        /\ view.readable => view.value = Sheet(view.arg)

====
